---- MODULE Spec2Model ----
(***************************************************************************)
(* Model of the Expo custom-updates Fastify server:                        *)
(*   - the manifest route  (src/src/routes/api/manifest/manifest.ts)       *)
(*   - the asset route     (src/unnamed/part_000)                          *)
(* JavaScript strings are modelled as sequences of tokens (characters or   *)
(* atomic words), so that parseInt, the hash-to-UUID transform and         *)
(* String.replace are computed rather than assumed.                        *)
(***************************************************************************)
EXTENDS Integers, Sequences, FiniteSets, TLC

\* ------------------------------------------------------------------------
\* Bounds of the model
\* ------------------------------------------------------------------------
\* Most bundles the publisher puts under one runtime version directory.
MaxBundles == 2

\* ------------------------------------------------------------------------
\* Header / query values: string | string[] | undefined
\* ------------------------------------------------------------------------
Absent == [kind |-> "absent", val |-> <<>>]
Str(s) == [kind |-> "string", val |-> s]
Arr == [kind |-> "array", val |-> <<>>]

\* JavaScript truthiness of a header value: undefined and "" are falsy,
\* every array (even an empty one) is truthy.
Truthy(h) == h.kind = "array" \/ (h.kind = "string" /\ h.val # <<>>)

\* a ?? b : b only when a is undefined
Coalesce(a, b) == IF a.kind = "absent" THEN b ELSE a

\* x === "literal"
IsString(h, s) == h.kind = "string" /\ h.val = s

\* ------------------------------------------------------------------------
\* parseInt(s, 10)
\* ------------------------------------------------------------------------
\* Number.NaN; parseInt of the unsigned strings used here is never negative.
NaN == -1

Digits == {"0", "1", "2", "3", "4", "5", "6", "7", "8", "9"}

DigitValue(c) ==
  CASE c = "0" -> 0 [] c = "1" -> 1 [] c = "2" -> 2 [] c = "3" -> 3
    [] c = "4" -> 4 [] c = "5" -> 5 [] c = "6" -> 6 [] c = "7" -> 7
    [] c = "8" -> 8 [] c = "9" -> 9

RECURSIVE DigitPrefixLen(_)
DigitPrefixLen(s) ==
  IF s = <<>> \/ Head(s) \notin Digits THEN 0 ELSE 1 + DigitPrefixLen(Tail(s))

RECURSIVE DigitsValue(_, _)
DigitsValue(s, n) ==
  IF n = 0 THEN 0 ELSE 10 * DigitsValue(s, n - 1) + DigitValue(s[n])

\* parseInt reads the longest prefix of decimal digits; none gives NaN.
ParseInt(s) ==
  IF DigitPrefixLen(s) = 0 THEN NaN ELSE DigitsValue(s, DigitPrefixLen(s))

\* ------------------------------------------------------------------------
\* Published bundles (external storage, read-only to the server)
\* ------------------------------------------------------------------------
Platforms == {<<"ios">>, <<"android">>}

\* Content hashes of two published bundles (hex digits, shortened).
H1 == <<"a", "1", "b", "2">>
H2 == <<"c", "3", "d", "4">>

\* Hex digits of the hash that the UUID keeps.
UuidDigits == 2

\* convertSHA256HashToUUID: deterministic, keeps the leading digits of the
\* hash and groups them with dashes.
ConvertSHA256HashToUUID(id) ==
  <<id[1], "-">> \o SubSeq(id, 2, UuidDigits)

\* The kinds of bundle directory a publisher produces:
\*   rollback  - the directory lists an entry named "rollback"
\*   id        - the content hash in the bundle metadata
\*   platforms - the platforms that metadataJson.fileMetadata has a record for
BundleKinds ==
  { [rollback |-> FALSE, id |-> H1, platforms |-> {<<"ios">>}],
    [rollback |-> FALSE, id |-> H2, platforms |-> Platforms],
    [rollback |-> TRUE, id |-> H2, platforms |-> {}] }

\* The runtime version the publisher has a directory for; every other
\* runtime version has no published bundle.
PublishedVersion == <<"1">>

\* getLatestUpdateBundlePathForRuntimeVersionAsync: the most recent bundle
\* directory under the runtime version; 0 stands for the helper throwing
\* because the runtime version has no published bundle.  A bundle path is
\* the position of the bundle in the publishing order.
LatestBundlePath(dir, rv) ==
  IF rv = PublishedVersion /\ Len(dir) > 0 THEN Len(dir) ELSE 0

\* ------------------------------------------------------------------------
\* Requests
\* ------------------------------------------------------------------------
\* An update id baked into a client binary (already UUID-shaped).
EmbeddedId == <<"e", "-", "9">>

ProtocolHeaders ==
  {Absent, Str(<<"0">>), Str(<<"1">>), Str(<<"2">>), Str(<<"x">>), Arr}

\* <<expo-platform header, platform query parameter>>
PlatformInputs ==
  { <<Str(<<"ios">>), Absent>>,
    <<Absent, Str(<<"android">>)>>,
    <<Str(<<"web">>), Str(<<"ios">>)>> }

\* <<expo-runtime-version header, runtime-version query parameter>>
RuntimeInputs ==
  { <<Str(<<"1">>), Absent>>,
    <<Absent, Str(<<"2">>)>>,
    <<Str(<<>>), Str(<<"1">>)>> }

CurrentIds == {Absent, Str(ConvertSHA256HashToUUID(H1)), Str(EmbeddedId)}

EmbeddedIds == {Absent, Str(<<>>), Str(EmbeddedId), Arr}

ExpectSignatures == {Absent, Str(<<>>), Str(<<"sig">>)}

Requests ==
  [ protocolHeader : ProtocolHeaders,
    platform : PlatformInputs,
    runtime : RuntimeInputs,
    currentUpdateId : CurrentIds,
    embeddedUpdateId : EmbeddedIds,
    expectSignature : ExpectSignatures ]

NoRequest ==
  [ protocolHeader |-> Absent, platform |-> <<Absent, Absent>>,
    runtime |-> <<Absent, Absent>>, currentUpdateId |-> Absent,
    embeddedUpdateId |-> Absent, expectSignature |-> Absent ]

\* ------------------------------------------------------------------------
\* Errors and replies
\* ------------------------------------------------------------------------
NoError == [name |-> "", message |-> ""]
NoUpdateAvailableError == [name |-> "NoUpdateAvailableError", message |-> ""]
ErrorOf(msg) == [name |-> "Error", message |-> msg]
TypeErrorOf(msg) == [name |-> "TypeError", message |-> msg]

\* `${e}` : Error.prototype.toString
ErrorToString(e) == <<e.name, ": ", e.message>>

\* A response header or local that has not been set.
Unset == -2

UnsetHeaders ==
  [ protocolVersion |-> Unset, sfvVersion |-> Unset, cacheControl |-> "",
    contentType |-> "" ]

NoBody ==
  [ part |-> "none", type |-> "none", id |-> <<>>, createdAt |-> 0,
    runtimeVersion |-> <<>>, launchAsset |-> [bundle |-> 0, platform |-> <<>>],
    signature |-> FALSE,
    extensions |-> FALSE ]

NoReply ==
  [ sends |-> 0, status |-> 0, error |-> <<>>, headers |-> UnsetHeaders,
    body |-> NoBody, by |-> "none" ]

\* reply.code(status).send({ error })
SendError(rep, status, text, who) ==
  [rep EXCEPT !.sends = @ + 1, !.status = status, !.error = text, !.by = who]

\* reply.code(200).header(...)...; reply.send(form.getBuffer())
SendMultipart(rep, pv, body, who) ==
  [rep EXCEPT !.sends = @ + 1, !.status = 200,
     !.headers = [protocolVersion |-> pv, sfvVersion |-> 0,
                  cacheControl |-> "private, max-age=0",
                  contentType |-> "multipart/mixed"],
     !.body = body, !.by = who]

\* No earlier request is remembered.
NoPrev == [req |-> NoRequest, reply |-> NoReply]

\* ------------------------------------------------------------------------
\* State
\* ------------------------------------------------------------------------
VARIABLES
  updates,          \* bundles published under PublishedVersion, oldest first
  privateKey,       \* TRUE iff a private signing key is configured
  pc,               \* position of the manifest handler
  req,              \* the manifest request being handled
  protocolVersion,  \* handler locals
  platform,
  runtimeVersion,
  updateBundlePath,
  thrown,           \* the exception in flight
  raised,           \* NoUpdateAvailableError thrown while handling req
  caught,           \* NoUpdateAvailableError caught by the dispatcher
  reply,            \* the reply of the request being handled
  prev,             \* the earlier of two equal requests, with its reply
  strayFiles,       \* files of the working directory outside the bundles
  apc,              \* position of the asset handler
  areq,             \* the asset request being handled
  assetBundlePath,  \* asset handler local updateBundlePath
  athrown,          \* the exception in flight in the asset handler
  areply            \* the reply of the asset request

manifestVars ==
  << pc, req, protocolVersion, platform, runtimeVersion, updateBundlePath,
     thrown, raised, caught, reply, prev >>

assetVars == << strayFiles, apc, areq, assetBundlePath, athrown, areply >>

vars == << updates, privateKey, manifestVars, assetVars >>

\* ------------------------------------------------------------------------
\* Code decisions of manifest.ts, as operators
\* ------------------------------------------------------------------------
\* manifest.ts 29-32: a repeated expo-protocol-version header
IsRepeatedHeader(h) == Truthy(h) /\ h.kind = "array"

\* manifest.ts 39: parseInt(protocolVersionMaybeArray ?? "0", 10)
NegotiatedProtocolVersion(h) == ParseInt(Coalesce(h, Str(<<"0">>)).val)

\* manifest.ts 43: platform !== "ios" && platform !== "android"
UnsupportedPlatform(p) == ~IsString(p, <<"ios">>) /\ ~IsString(p, <<"android">>)

\* manifest.ts 53: !runtimeVersion || typeof runtimeVersion !== "string"
NoRuntimeVersion(rv) == ~Truthy(rv) \/ rv.kind # "string"

\* manifest.ts 119: directoryContents.includes("rollback")
GetTypeOfUpdate(bundle) == IF bundle.rollback THEN "ROLLBACK" ELSE "NORMAL_UPDATE"

\* Mutant: the current update id is compared with the raw content hash.
UpdateIsCurrent_RawHash(currentUpdateId, id, pv) ==
  IsString(currentUpdateId, id) /\ pv = 1

\* Mutant: the protocol version is not looked at.
UpdateIsCurrent_AnyVersion(currentUpdateId, id, pv) ==
  IsString(currentUpdateId, ConvertSHA256HashToUUID(id))

\* manifest.ts 142-145: the no-update short-circuit of the manifest builder
UpdateIsCurrent(currentUpdateId, id, pv) ==
  IsString(currentUpdateId, ConvertSHA256HashToUUID(id)) /\ pv = 1

\* Mutant: the protocol version 0 guard of the directives is missing.
DirectiveUnsupported_Never(pv) == FALSE

\* manifest.ts 258 and 323: directives do not exist in protocol version 0
DirectiveUnsupported(pv) == pv = 0

\* manifest.ts 263: !embeddedUpdateId || typeof embeddedUpdateId !== "string"
InvalidEmbeddedUpdateId(e) == ~Truthy(e) \/ e.kind # "string"

\* Mutant: the rollback builder never reports the client as current.
AtRollBackTarget_Never(currentUpdateId, embeddedUpdateId) == FALSE

\* manifest.ts 270: currentUpdateId === embeddedUpdateId
AtRollBackTarget(currentUpdateId, embeddedUpdateId) ==
  currentUpdateId = embeddedUpdateId

\* Mutant: the dispatcher rethrows every exception.
IsNoUpdateAvailableError_Never(e) == FALSE

\* manifest.ts 86: maybeNoUpdateAvailableError instanceof NoUpdateAvailableError
IsNoUpdateAvailableError(e) == e.name = "NoUpdateAvailableError"

\* Mutant: an empty expo-expect-signature header also asks for a signature.
ExpectsSignature_Presence(h) == h.kind # "absent"

\* manifest.ts 191-192, 278-279, 332-333: if (expectSignatureHeader)
ExpectsSignature(h) == Truthy(h)

\* manifest.ts 198 and 285
NoKeyTextOfBuilders ==
  <<"Code signing requested but no key supplied when starting server.">>

\* manifest.ts 339
NoKeyTextOfNoUpdate ==
  <<"Code signing requested but no key supplied when starting server">>

\* ------------------------------------------------------------------------
\* Documents
\* ------------------------------------------------------------------------
\* manifest.ts 156-187 and 226-236: the manifest part (with the
\* expo-signature part header when signed) and the extensions part
ManifestBody(path, bundle, rv, p, signed) ==
  [ part |-> "manifest", type |-> "manifest",
    id |-> ConvertSHA256HashToUUID(bundle.id), createdAt |-> path,
    runtimeVersion |-> rv, launchAsset |-> [bundle |-> path, platform |-> p],
    signature |-> signed, extensions |-> TRUE ]

\* manifest.ts 275 and 297-304: createRollBackDirectiveAsync(updateBundlePath)
RollBackBody(path, signed) ==
  [NoBody EXCEPT !.part = "directive", !.type = "rollBackToEmbedded",
     !.createdAt = path, !.signature = signed]

\* manifest.ts 329 and 351-358: createNoUpdateAvailableDirectiveAsync()
NoUpdateBody(signed) ==
  [NoBody EXCEPT !.part = "directive", !.type = "noUpdateAvailable",
     !.signature = signed]

\* ------------------------------------------------------------------------
\* The manifest route, GET /
\* ------------------------------------------------------------------------
ManifestIdle ==
  /\ pc = "idle"
  /\ req = NoRequest
  /\ protocolVersion = Unset
  /\ platform = Absent
  /\ runtimeVersion = Absent
  /\ updateBundlePath = 0
  /\ thrown = NoError
  /\ raised = 0
  /\ caught = 0
  /\ reply = NoReply

\* The external publisher adds a bundle directory; published bundles are
\* never changed or removed.
Publish(b) ==
  /\ Len(updates) < MaxBundles
  /\ updates' = Append(updates, b)
  /\ UNCHANGED << privateKey, manifestVars, assetVars >>

\* A manifest request arrives at the route.
Receive(r) ==
  /\ pc = "idle"
  /\ pc' = "negotiate"
  /\ req' = r
  /\ UNCHANGED << assetVars, prev, updates, privateKey, protocolVersion, platform, runtimeVersion,
                  updateBundlePath, thrown, raised, caught, reply >>

\* manifest.ts 104: the handler returns; nothing of the request is kept.
Finish ==
  /\ pc = "done"
  /\ pc' = "idle"
  /\ req' = NoRequest
  /\ protocolVersion' = Unset
  /\ platform' = Absent
  /\ runtimeVersion' = Absent
  /\ updateBundlePath' = 0
  /\ thrown' = NoError
  /\ raised' = 0
  /\ caught' = 0
  /\ reply' = NoReply
  /\ UNCHANGED << assetVars, prev, updates, privateKey >>

\* throw inside the inner try block
ThrowInTry(e) ==
  /\ thrown' = e
  /\ raised' = IF e = NoUpdateAvailableError THEN raised + 1 ELSE raised
  /\ pc' = "innerCatch"

\* manifest.ts 26-55: request negotiation
Negotiate ==
  /\ pc = "negotiate"
  /\ LET pv == NegotiatedProtocolVersion(req.protocolHeader)
         p == Coalesce(req.platform[1], req.platform[2])
         rv == Coalesce(req.runtime[1], req.runtime[2])
     IN IF IsRepeatedHeader(req.protocolHeader)
        THEN /\ reply' = SendError(reply, 400,
                  <<"Unsupported protocol version. Expected either 0 or 1.">>,
                  "handler")
             /\ pc' = "done"
             /\ UNCHANGED << protocolVersion, platform, runtimeVersion >>
        ELSE IF UnsupportedPlatform(p)
        THEN /\ reply' = SendError(reply, 400,
                  <<"Unsupported platform. Expected either ios or android.">>,
                  "handler")
             /\ pc' = "done"
             /\ protocolVersion' = pv
             /\ UNCHANGED << platform, runtimeVersion >>
        ELSE IF NoRuntimeVersion(rv)
        THEN /\ reply' = SendError(reply, 400, <<"No runtimeVersion provided.">>,
                  "handler")
             /\ pc' = "done"
             /\ protocolVersion' = pv
             /\ platform' = p
             /\ UNCHANGED runtimeVersion
        ELSE /\ protocolVersion' = pv
             /\ platform' = p
             /\ runtimeVersion' = rv
             /\ pc' = "locate"
             /\ UNCHANGED reply
  /\ UNCHANGED << assetVars, prev, updates, privateKey, req, updateBundlePath, thrown, raised, caught >>

\* manifest.ts 59-62: locate the latest bundle of the runtime version
Locate ==
  /\ pc = "locate"
  /\ LET path == LatestBundlePath(updates, runtimeVersion.val)
     IN IF path = 0
        THEN /\ ThrowInTry(ErrorOf("Unsupported runtime version"))
             /\ UNCHANGED updateBundlePath
        ELSE /\ updateBundlePath' = path
             /\ pc' = "classify"
             /\ UNCHANGED << thrown, raised >>
  /\ UNCHANGED << assetVars, prev, updates, privateKey, req, protocolVersion, platform,
                  runtimeVersion, caught, reply >>

\* As Classify, but the marker check looks the latest bundle up again
\* instead of using the path located before.
Classify_Relocate ==
  /\ pc = "classify"
  /\ pc' = IF GetTypeOfUpdate(updates[LatestBundlePath(updates, runtimeVersion.val)])
                = "NORMAL_UPDATE"
           THEN "putUpdate" ELSE "putRollBack"
  /\ UNCHANGED << assetVars, prev, updates, privateKey, req, protocolVersion, platform,
                  runtimeVersion, updateBundlePath, thrown, raised, caught, reply >>

\* manifest.ts 64-84: classify the bundle and pick the builder
Classify ==
  /\ pc = "classify"
  /\ pc' = IF GetTypeOfUpdate(updates[updateBundlePath]) = "NORMAL_UPDATE"
           THEN "putUpdate" ELSE "putRollBack"
  /\ UNCHANGED << assetVars, prev, updates, privateKey, req, protocolVersion, platform,
                  runtimeVersion, updateBundlePath, thrown, raised, caught, reply >>

\* As PutUpdateCheck, but the server keeps in mind that it has handed out a
\* manifest and answers the next request as up to date.
PutUpdateCheck_Remembering ==
  /\ pc = "putUpdate"
  /\ IF \/ UpdateIsCurrent(req.currentUpdateId, updates[updateBundlePath].id,
                           protocolVersion)
        \/ prev.reply.status = 200 /\ prev.reply.body.part = "manifest"
     THEN ThrowInTry(NoUpdateAvailableError)
     ELSE /\ pc' = "putUpdateBuild"
          /\ UNCHANGED << thrown, raised >>
  /\ UNCHANGED << assetVars, prev, updates, privateKey, req, protocolVersion, platform,
                  runtimeVersion, updateBundlePath, caught, reply >>

\* manifest.ts 125-147: read the bundle metadata, then the no-update
\* short-circuit
PutUpdateCheck ==
  /\ pc = "putUpdate"
  /\ IF UpdateIsCurrent(req.currentUpdateId, updates[updateBundlePath].id,
                        protocolVersion)
     THEN ThrowInTry(NoUpdateAvailableError)
     ELSE /\ pc' = "putUpdateBuild"
          /\ UNCHANGED << thrown, raised >>
  /\ UNCHANGED << assetVars, prev, updates, privateKey, req, protocolVersion, platform,
                  runtimeVersion, updateBundlePath, caught, reply >>

\* As PutUpdateSend, but the signing error is sent without "return", so the
\* builder goes on and sends the manifest as well.
PutUpdateSend_NoReturn ==
  /\ pc = "putUpdateBuild"
  /\ LET bundle == updates[updateBundlePath]
         signed == ExpectsSignature(req.expectSignature)
         first == IF signed /\ ~privateKey
                  THEN SendError(reply, 400, NoKeyTextOfBuilders, "putUpdate")
                  ELSE reply
     IN IF platform.val \notin bundle.platforms
        THEN /\ ThrowInTry(TypeErrorOf("Cannot read properties of undefined"))
             /\ UNCHANGED reply
        ELSE /\ reply' = SendMultipart(first, protocolVersion,
                  ManifestBody(updateBundlePath, bundle, runtimeVersion.val,
                               platform.val, signed),
                  "putUpdate")
             /\ pc' = "done"
             /\ UNCHANGED << thrown, raised >>
  /\ UNCHANGED << assetVars, prev, updates, privateKey, req, protocolVersion, platform,
                  runtimeVersion, updateBundlePath, caught >>

\* manifest.ts 149-248: build the manifest, sign it when asked, send it
PutUpdateSend ==
  /\ pc = "putUpdateBuild"
  /\ LET bundle == updates[updateBundlePath]
     IN IF platform.val \notin bundle.platforms
        THEN \* metadataJson.fileMetadata[platform] is undefined
             /\ ThrowInTry(TypeErrorOf("Cannot read properties of undefined"))
             /\ UNCHANGED reply
        ELSE IF ExpectsSignature(req.expectSignature) /\ ~privateKey
        THEN /\ reply' = SendError(reply, 400, NoKeyTextOfBuilders, "putUpdate")
             /\ pc' = "done"
             /\ UNCHANGED << thrown, raised >>
        ELSE /\ reply' = SendMultipart(reply, protocolVersion,
                  ManifestBody(updateBundlePath, bundle, runtimeVersion.val,
                               platform.val, ExpectsSignature(req.expectSignature)),
                  "putUpdate")
             /\ pc' = "done"
             /\ UNCHANGED << thrown, raised >>
  /\ UNCHANGED << assetVars, prev, updates, privateKey, req, protocolVersion, platform,
                  runtimeVersion, updateBundlePath, caught >>

\* manifest.ts 252-272: the checks of the rollback builder
PutRollBackCheck ==
  /\ pc = "putRollBack"
  /\ IF DirectiveUnsupported(protocolVersion)
     THEN ThrowInTry(ErrorOf("Rollbacks not supported on protocol version 0"))
     ELSE IF InvalidEmbeddedUpdateId(req.embeddedUpdateId)
     THEN ThrowInTry(ErrorOf("Invalid Expo-Embedded-Update-ID request header specified."))
     ELSE IF AtRollBackTarget(req.currentUpdateId, req.embeddedUpdateId)
     THEN ThrowInTry(NoUpdateAvailableError)
     ELSE /\ pc' = "putRollBackDirective"
          /\ UNCHANGED << thrown, raised >>
  /\ UNCHANGED << assetVars, prev, updates, privateKey, req, protocolVersion, platform,
                  runtimeVersion, updateBundlePath, caught, reply >>

\* manifest.ts 275-314: create the rollback directive, sign it when asked,
\* send it
PutRollBackSend ==
  /\ pc = "putRollBackDirective"
  /\ IF ExpectsSignature(req.expectSignature) /\ ~privateKey
     THEN reply' = SendError(reply, 400, NoKeyTextOfBuilders, "putRollBack")
     ELSE reply' = SendMultipart(reply, 1,
             RollBackBody(updateBundlePath, ExpectsSignature(req.expectSignature)),
             "putRollBack")
  /\ pc' = "done"
  /\ UNCHANGED << assetVars, prev, updates, privateKey, req, protocolVersion, platform,
                  runtimeVersion, updateBundlePath, thrown, raised, caught >>

\* manifest.ts 85-96: the dispatcher's catch of the inner try block
InnerCatch ==
  /\ pc = "innerCatch"
  /\ IF IsNoUpdateAvailableError(thrown)
     THEN /\ caught' = caught + 1
          /\ thrown' = NoError
          /\ pc' = "putNoUpdateAvailable"
     ELSE \* throw maybeNoUpdateAvailableError
          /\ pc' = "outerCatch"
          /\ UNCHANGED << caught, thrown >>
  /\ UNCHANGED << assetVars, prev, updates, privateKey, req, protocolVersion, platform,
                  runtimeVersion, updateBundlePath, raised, reply >>

\* manifest.ts 318-369: the no-update directive, signed when asked
PutNoUpdateAvailable ==
  /\ pc = "putNoUpdateAvailable"
  /\ IF DirectiveUnsupported(protocolVersion)
     THEN \* thrown from inside the catch block: only the outer catch sees it
          /\ thrown' = ErrorOf("NoUpdateAvailable directive not available in protocol version 0")
          /\ pc' = "outerCatch"
          /\ UNCHANGED reply
     ELSE IF ExpectsSignature(req.expectSignature) /\ ~privateKey
     THEN /\ reply' = SendError(reply, 400, NoKeyTextOfNoUpdate,
                                "putNoUpdateAvailable")
          /\ pc' = "done"
          /\ UNCHANGED thrown
     ELSE /\ reply' = SendMultipart(reply, 1,
                 NoUpdateBody(ExpectsSignature(req.expectSignature)),
                 "putNoUpdateAvailable")
          /\ pc' = "done"
          /\ UNCHANGED thrown
  /\ UNCHANGED << assetVars, prev, updates, privateKey, req, protocolVersion, platform,
                  runtimeVersion, updateBundlePath, raised, caught >>

\* manifest.ts 97-103: every other exception becomes a 505 reply
OuterCatch ==
  /\ pc = "outerCatch"
  /\ reply' = SendError(reply, 505, ErrorToString(thrown), "catch")
  /\ pc' = "done"
  /\ UNCHANGED << assetVars, prev, updates, privateKey, req, protocolVersion, platform,
                  runtimeVersion, updateBundlePath, thrown, raised, caught >>

Next ==
  \/ \E b \in BundleKinds : Publish(b)
  \/ \E r \in Requests : Receive(r)
  \/ Negotiate
  \/ Locate
  \/ Classify
  \/ PutUpdateCheck
  \/ PutUpdateSend
  \/ PutRollBackCheck
  \/ PutRollBackSend
  \/ InnerCatch
  \/ PutNoUpdateAvailable
  \/ OuterCatch
  \/ Finish

\* ------------------------------------------------------------------------
\* Files on disk.  A path is a sequence of segments, relative to the
\* working directory of the server process.
\* ------------------------------------------------------------------------
\* Names of the bundle directories, in publishing order.
DirNames == <<"t1", "t2", "t3", "t4">>

\* The updateBundlePath string of the n-th bundle: updates/<runtime>/<name>
BundleDir(n) == <<"updates">> \o PublishedVersion \o <<DirNames[n]>>

\* metadataJson.fileMetadata[platform].bundle
LaunchBundleOf(p) == <<"bundles">> \o p

\* metadataJson.fileMetadata[platform].assets
AssetRecords == { [path |-> <<"assets", "a1">>, ext |-> "png"] }

\* getMetadataAsync reads metadata.json of the bundle directory; a rollback
\* directory holds only the marker.
MetadataReadable(bundle) == ~bundle.rollback

\* The files of one bundle directory, relative to it.
BundleFiles(bundle) ==
  IF bundle.rollback
  THEN { <<"rollback">> }
  ELSE { <<"metadata.json">> } \cup { r.path : r \in AssetRecords }
         \cup { LaunchBundleOf(p) : p \in bundle.platforms }

\* Files of the server project itself.
ProjectFiles == { <<"package.json">> }

\* Files that may or may not lie in the working directory.
StrayCandidates == { <<"bundles", "ios">>, <<"assets", "a1">> }

\* mime.getType(ext)
MimeType(ext) == IF ext = "png" THEN "image/png" ELSE "null"

\* fsSync.existsSync(path)
FileExists(dir, stray, path) ==
  \/ path \in ProjectFiles \cup stray
  \/ \E n \in 1..Len(dir) : \E f \in BundleFiles(dir[n]) : path = BundleDir(n) \o f

\* fs.readFile(path): every file has bytes of its own, named by its place.
ReadFile(path) == path

\* path.resolve(name): ".." removes the segment before it.
RECURSIVE Normalize(_, _)
Normalize(done, rest) ==
  IF rest = <<>> THEN done
  ELSE IF Head(rest) = ".."
  THEN Normalize(IF done = <<>> THEN done ELSE SubSeq(done, 1, Len(done) - 1),
                 Tail(rest))
  ELSE Normalize(Append(done, Head(rest)), Tail(rest))

\* part_000 39: path.resolve(assetName); the bundle directory plays no part
ResolveIn(name, bundleDir) == Normalize(<<>>, name)

\* part_000 47 and 49: assetName.replace(`${updateBundlePath}/`, ''), which
\* removes the first occurrence of the directory prefix, wherever it is
StripBundleDir(name, bundleDir) ==
  LET places == { i \in 1..Len(name) :
                    /\ i + Len(bundleDir) <= Len(name)
                    /\ SubSeq(name, i, i + Len(bundleDir) - 1) = bundleDir }
  IN IF places = {} THEN name
     ELSE LET i == CHOOSE k \in places : \A j \in places : k <= j
          IN SubSeq(name, 1, i - 1) \o SubSeq(name, i + Len(bundleDir), Len(name))

\* ------------------------------------------------------------------------
\* Asset requests and replies
\* ------------------------------------------------------------------------
AssetNames ==
  { BundleDir(n) \o f :
      n \in 1..MaxBundles,
      f \in { <<"bundles", "ios">>, <<"assets", "a1">>, <<"assets", "zz">> } }
    \cup { <<"bundles", "ios">>, <<"assets", "a1">>, <<"package.json">>,
           BundleDir(1) \o <<"..", DirNames[1], "assets", "a1">>,
           <<"bundles">> \o BundleDir(1) \o <<"ios">> }

AssetRequests ==
  [ asset : {Absent, Str(<<>>)} \cup { Str(a) : a \in AssetNames },
    runtimeVersion : {Absent, Str(<<"1">>), Str(<<"2">>)},
    platform : {Absent, Str(<<"ios">>), Str(<<"android">>)} ]

NoAssetRequest == [asset |-> Absent, runtimeVersion |-> Absent, platform |-> Absent]

NoAssetReply ==
  [sends |-> 0, status |-> 0, error |-> <<>>, contentType |-> "", bytes |-> <<>>]

\* reply.code(status).send({ error })
SendAssetError(status, text) ==
  [NoAssetReply EXCEPT !.sends = 1, !.status = status, !.error = text]

\* reply.header('content-type', contentType); reply.send(asset)
SendAsset(contentType, bytes) ==
  [NoAssetReply EXCEPT !.sends = 1, !.status = 200, !.contentType = contentType,
     !.bytes = bytes]

AssetIdle ==
  /\ apc = "idle"
  /\ areq = NoAssetRequest
  /\ assetBundlePath = 0
  /\ athrown = NoError
  /\ areply = NoAssetReply

\* ------------------------------------------------------------------------
\* The asset route, GET /
\* ------------------------------------------------------------------------
AssetReceive(r) ==
  /\ apc = "idle"
  /\ apc' = "validate"
  /\ areq' = r
  /\ UNCHANGED << updates, privateKey, manifestVars, strayFiles, assetBundlePath,
                  athrown, areply >>

\* part_000 19-33: validation of the query
AssetValidate ==
  /\ apc = "validate"
  /\ IF ~Truthy(areq.asset)
     THEN /\ areply' = SendAssetError(400, <<"No asset name provided.">>)
          /\ apc' = "done"
     ELSE IF UnsupportedPlatform(areq.platform)
     THEN /\ areply' = SendAssetError(400,
               <<"No platform provided. Expected \"ios\" or \"android\".">>)
          /\ apc' = "done"
     ELSE IF NoRuntimeVersion(areq.runtimeVersion)
     THEN /\ areply' = SendAssetError(400, <<"No runtimeVersion provided.">>)
          /\ apc' = "done"
     ELSE /\ apc' = "locate"
          /\ UNCHANGED areply
  /\ UNCHANGED << updates, privateKey, manifestVars, strayFiles, areq,
                  assetBundlePath, athrown >>

\* part_000 37: locate the latest bundle of the runtime version
AssetLocate ==
  /\ apc = "locate"
  /\ LET path == LatestBundlePath(updates, areq.runtimeVersion.val)
     IN IF path = 0
        THEN /\ athrown' = ErrorOf("Unsupported runtime version")
             /\ apc' = "catch"
             /\ UNCHANGED assetBundlePath
        ELSE /\ assetBundlePath' = path
             /\ apc' = "serve"
             /\ UNCHANGED athrown
  /\ UNCHANGED << updates, privateKey, manifestVars, strayFiles, areq, areply >>

\* part_000 38-54: read the metadata, resolve the name, read and send the file
AssetServe ==
  /\ apc = "serve"
  /\ LET bundle == updates[assetBundlePath]
         assetName == areq.asset.val
         assetPath == ResolveIn(assetName, BundleDir(assetBundlePath))
         relative == StripBundleDir(assetName, BundleDir(assetBundlePath))
         found == { r \in AssetRecords : r.path = relative }
     IN IF ~MetadataReadable(bundle)
        THEN /\ athrown' = ErrorOf("ENOENT: no such file or directory")
             /\ apc' = "catch"
             /\ UNCHANGED areply
        ELSE IF ~FileExists(updates, strayFiles, assetPath)
        THEN /\ areply' = SendAssetError(404,
                  <<"Asset \"">> \o assetName \o <<"\" does not exist.">>)
             /\ apc' = "done"
             /\ UNCHANGED athrown
        ELSE IF areq.platform.val \notin bundle.platforms
        THEN \* metadataJson.fileMetadata[platform] is undefined
             /\ athrown' = TypeErrorOf("Cannot read properties of undefined")
             /\ apc' = "catch"
             /\ UNCHANGED areply
        ELSE IF LaunchBundleOf(areq.platform.val) = relative
        THEN /\ areply' = SendAsset("application/javascript", ReadFile(assetPath))
             /\ apc' = "done"
             /\ UNCHANGED athrown
        ELSE IF found = {}
        THEN \* assetMetadata is undefined
             /\ athrown' = TypeErrorOf("Cannot read properties of undefined")
             /\ apc' = "catch"
             /\ UNCHANGED areply
        ELSE /\ areply' = SendAsset(MimeType((CHOOSE r \in found : TRUE).ext),
                                    ReadFile(assetPath))
             /\ apc' = "done"
             /\ UNCHANGED athrown
  /\ UNCHANGED << updates, privateKey, manifestVars, strayFiles, areq,
                  assetBundlePath >>

\* part_000 56-59: every exception becomes a 500 reply
AssetCatch ==
  /\ apc = "catch"
  /\ areply' = SendAssetError(500, <<athrown.message>>)
  /\ apc' = "done"
  /\ UNCHANGED << updates, privateKey, manifestVars, strayFiles, areq,
                  assetBundlePath, athrown >>

\* part_000 60: the handler returns
AssetFinish ==
  /\ apc = "done"
  /\ apc' = "idle"
  /\ areq' = NoAssetRequest
  /\ assetBundlePath' = 0
  /\ athrown' = NoError
  /\ areply' = NoAssetReply
  /\ UNCHANGED << updates, privateKey, manifestVars, strayFiles >>

\* ------------------------------------------------------------------------
\* Specifications
\* ------------------------------------------------------------------------
\* The manifest route, with the publisher adding bundles.
Init ==
  /\ updates = <<>>
  /\ privateKey \in BOOLEAN
  /\ ManifestIdle
  /\ prev = NoPrev
  /\ AssetIdle
  /\ strayFiles = {}

Spec == Init /\ [][Next]_vars

\* The asset route, with the publisher adding bundles.
AssetInit ==
  /\ updates = <<>>
  /\ privateKey = FALSE
  /\ ManifestIdle
  /\ prev = NoPrev
  /\ AssetIdle
  /\ strayFiles \in SUBSET StrayCandidates

AssetNext ==
  \/ \E b \in BundleKinds : Publish(b)
  \/ \E r \in AssetRequests : AssetReceive(r)
  \/ AssetValidate
  \/ AssetLocate
  \/ AssetServe
  \/ AssetCatch
  \/ AssetFinish

AssetSpec == AssetInit /\ [][AssetNext]_vars

\* The manifest route asked the same thing twice.  The publisher acts before
\* the first of the two requests only, so both meet the same bundles.
PublishBefore(b) ==
  /\ pc = "idle"
  /\ prev = NoPrev
  /\ Publish(b)

FirstReceive ==
  /\ pc = "idle"
  /\ prev = NoPrev
  /\ \E r \in Requests : Receive(r)

\* manifest.ts 104: the handler returns from the first request; the client
\* keeps the request and the reply it got.
Remember ==
  /\ pc = "done"
  /\ prev = NoPrev
  /\ prev' = [req |-> req, reply |-> reply]
  /\ pc' = "idle"
  /\ req' = NoRequest
  /\ protocolVersion' = Unset
  /\ platform' = Absent
  /\ runtimeVersion' = Absent
  /\ updateBundlePath' = 0
  /\ thrown' = NoError
  /\ raised' = 0
  /\ caught' = 0
  /\ reply' = NoReply
  /\ UNCHANGED << assetVars, updates, privateKey >>

\* The client sends the remembered request again.
Repeat ==
  /\ pc = "idle"
  /\ prev # NoPrev
  /\ Receive(prev.req)

\* manifest.ts 104: the handler returns from the second request.
Forget ==
  /\ pc = "done"
  /\ prev # NoPrev
  /\ prev' = NoPrev
  /\ pc' = "idle"
  /\ req' = NoRequest
  /\ protocolVersion' = Unset
  /\ platform' = Absent
  /\ runtimeVersion' = Absent
  /\ updateBundlePath' = 0
  /\ thrown' = NoError
  /\ raised' = 0
  /\ caught' = 0
  /\ reply' = NoReply
  /\ UNCHANGED << assetVars, updates, privateKey >>

TwiceNext ==
  \/ \E b \in BundleKinds : PublishBefore(b)
  \/ FirstReceive
  \/ Remember
  \/ Repeat
  \/ Forget
  \/ Negotiate
  \/ Locate
  \/ Classify
  \/ PutUpdateCheck
  \/ PutUpdateSend
  \/ PutRollBackCheck
  \/ PutRollBackSend
  \/ InnerCatch
  \/ PutNoUpdateAvailable
  \/ OuterCatch

TwiceSpec == Init /\ [][TwiceNext]_vars

\* ------------------------------------------------------------------------
\* Vocabulary of the properties
\* ------------------------------------------------------------------------
Responded == pc = "done"

\* The request passed negotiation and a bundle was located for it.
Located == updateBundlePath # 0

LocatedBundle == updates[updateBundlePath]

HeaderIsV1 == req.protocolHeader = Str(<<"1">>)

HeaderIsV0 == req.protocolHeader \in {Absent, Str(<<"0">>)}

\* expo-expect-signature carries a non-empty value
SignatureRequested ==
  req.expectSignature.kind = "string" /\ req.expectSignature.val # <<>>

IsManifest(rep) ==
  rep.status = 200 /\ rep.body.part = "manifest"

IsRollBackDirective(rep) ==
  rep.status = 200 /\ rep.body.part = "directive"
    /\ rep.body.type = "rollBackToEmbedded"

IsNoUpdateDirective(rep) ==
  rep.status = 200 /\ rep.body.part = "directive"
    /\ rep.body.type = "noUpdateAvailable"

\* status 400, "Code signing requested but no key supplied ...", no document
IsSigningError(rep) ==
  /\ rep.status = 400
  /\ rep.body = NoBody
  /\ rep.error \in
       { <<"Code signing requested but no key supplied when starting server.">>,
         <<"Code signing requested but no key supplied when starting server">> }

\* an error response without any document
IsFailure(rep) == rep.sends = 1 /\ rep.status >= 400 /\ rep.body = NoBody

\* ------------------------------------------------------------------------
\* C1
\* ------------------------------------------------------------------------
C1Case ==
  /\ Responded /\ Located /\ HeaderIsV1
  /\ ~LocatedBundle.rollback
  /\ req.currentUpdateId = Str(ConvertSHA256HashToUUID(LocatedBundle.id))

\* C1 as stated: with protocol version 1, a NORMAL latest bundle and
\* expo-current-update-id equal to the bundle's manifest id, the response
\* is always the no-update directive, whatever the other headers are.
C1_AlwaysNoUpdateDirective == C1Case => IsNoUpdateDirective(reply)

\* C1 amended: under the same condition the response is never a manifest;
\* it is the no-update directive, except that a request asking for a
\* signature while no private key is configured gets the 400
\* signing-configuration error.  Holds for ios and android alike.
C1_NoUpdateWhenCurrent ==
  C1Case =>
    /\ ~IsManifest(reply)
    /\ IF SignatureRequested /\ ~privateKey
       THEN IsSigningError(reply)
       ELSE IsNoUpdateDirective(reply)

\* The no-update directive is sent to an android client although the
\* bundle has no record for android.
C1_Witness ==
  /\ C1Case
  /\ IsNoUpdateDirective(reply)
  /\ platform = Str(<<"android">>)
  /\ <<"android">> \notin LocatedBundle.platforms

\* ------------------------------------------------------------------------
\* C2
\* ------------------------------------------------------------------------
C2Case ==
  /\ Responded /\ Located /\ HeaderIsV0
  /\ ~LocatedBundle.rollback
  /\ req.currentUpdateId = Str(ConvertSHA256HashToUUID(LocatedBundle.id))

\* C2 as stated: with protocol version 0 and a NORMAL bundle, a request
\* whose expo-current-update-id equals the manifest id always yields a full
\* manifest, and no protocol version 0 request receives a no-update
\* directive.
C2_AlwaysManifest ==
  /\ C2Case => IsManifest(reply)
  /\ (Responded /\ HeaderIsV0) => ~IsNoUpdateDirective(reply)

\* C2 amended: under the same condition the request yields the full
\* manifest of the bundle when the bundle has a record for the requested
\* platform, except that a request asking for a signature while no private
\* key is configured gets the 400 signing-configuration error; when the
\* bundle has no record for the platform the request fails with an error
\* response.  No protocol version 0 request receives a no-update directive.
C2_ManifestOnVersion0 ==
  /\ C2Case =>
       IF platform.val \notin LocatedBundle.platforms
       THEN IsFailure(reply)
       ELSE IF SignatureRequested /\ ~privateKey
       THEN IsSigningError(reply)
       ELSE IsManifest(reply) /\ reply.body.id = req.currentUpdateId.val
  /\ (Responded /\ HeaderIsV0) => ~IsNoUpdateDirective(reply)

C2_Witness ==
  /\ C2Case
  /\ IsManifest(reply)
  /\ reply.headers.protocolVersion = 0

\* ------------------------------------------------------------------------
\* C3
\* ------------------------------------------------------------------------
\* The rollback builder or the no-update handler ran for a protocol
\* version 0 request.
C3Case ==
  /\ Responded /\ HeaderIsV0
  /\ \/ Located /\ LocatedBundle.rollback
     \/ caught > 0

\* C3: a rollback or no-update directive path entered with protocol
\* version 0 ends in an error response that says the directive is not
\* available on protocol version 0; no directive and no manifest is sent.
C3_NoDirectiveOnVersion0 ==
  C3Case =>
    /\ IsFailure(reply)
    /\ reply.error \in
         { <<"Error", ": ", "Rollbacks not supported on protocol version 0">>,
           <<"Error", ": ",
             "NoUpdateAvailable directive not available in protocol version 0">> }

C3_Witness ==
  /\ C3Case
  /\ reply.status = 505
  /\ req.embeddedUpdateId = Str(EmbeddedId)
  /\ req.currentUpdateId = Str(EmbeddedId)

\* ------------------------------------------------------------------------
\* C4
\* ------------------------------------------------------------------------
\* A builder or the no-update handler reached its signing step.
ReachedSigning ==
  Responded /\ reply.by \in {"putUpdate", "putRollBack", "putNoUpdateAvailable"}

\* C4: when a signature is requested and no private key is configured, the
\* manifest path, the rollback path and the no-update path all answer with
\* the same error response (status 400 and the error text of the manifest
\* path) and send no document.
C4_SameSigningError ==
  (ReachedSigning /\ SignatureRequested /\ ~privateKey) =>
    /\ reply.status = 400
    /\ reply.body = NoBody
    /\ reply.error =
         <<"Code signing requested but no key supplied when starting server.">>

\* ------------------------------------------------------------------------
\* C5
\* ------------------------------------------------------------------------
HeaderCarried == req.expectSignature.kind # "absent"

C6_SignalGivesDirective ==
  /\ (Responded /\ raised > 0) => (caught = 1 /\ IsNoUpdateDirective(reply))
  /\ pc = "outerCatch" => thrown.name # "NoUpdateAvailableError"

\* C6 amended: whenever a builder raises the no-update signal, the
\* dispatcher catches it exactly once and the no-update handler answers:
\* with the no-update directive, or with the 400 signing-configuration error
\* when a signature is requested and no key is configured.  The signal
\* never reaches the outer catch, so it is never sent as an error response.
C6_SignalCaughtOnce ==
  /\ raised <= 1 /\ caught <= raised
  /\ (Responded /\ raised > 0) =>
       /\ caught = 1
       /\ reply.by = "putNoUpdateAvailable"
       /\ IF SignatureRequested /\ ~privateKey
          THEN IsSigningError(reply)
          ELSE IsNoUpdateDirective(reply)
  /\ pc = "outerCatch" => thrown.name # "NoUpdateAvailableError"

\* The rollback builder raised the signal and the directive was sent.
C6_Witness ==
  /\ Responded /\ HeaderIsV1 /\ raised = 1 /\ caught = 1
  /\ Located /\ LocatedBundle.rollback
  /\ IsNoUpdateDirective(reply)

\* ------------------------------------------------------------------------
\* C7
\* ------------------------------------------------------------------------
\* The handler is past negotiation: bundle lookup, builders, assembly.
PastNegotiation ==
  pc \in { "locate", "classify", "putUpdate", "putUpdateBuild", "putRollBack",
           "putRollBackDirective", "innerCatch", "putNoUpdateAvailable",
           "outerCatch" }

\* C7: negotiation either answers 400 or hands on validated values:
\* platform ios or android, a non-empty runtimeVersion string and a
\* protocolVersion of 0 or 1; nothing after negotiation runs with another
\* protocolVersion.
C7_ValidatedValues ==
  /\ PastNegotiation =>
       /\ protocolVersion \in {0, 1}
       /\ platform \in {Str(<<"ios">>), Str(<<"android">>)}
       /\ runtimeVersion.kind = "string" /\ runtimeVersion.val # <<>>
  /\ (Responded /\ reply.by = "handler") => reply.status = 400
  /\ (Responded /\ reply.status = 200) => protocolVersion \in {0, 1}

\* ------------------------------------------------------------------------
\* C8
\* ------------------------------------------------------------------------
C8Case == Responded /\ Located /\ LocatedBundle.rollback /\ HeaderIsV1

\* C8 as stated: for a rollback bundle, protocol version 1 and a present
\* string expo-embedded-update-id the response is the no-update directive
\* when expo-current-update-id equals it and the rollback directive
\* otherwise; a missing or non-string expo-embedded-update-id fails the
\* request without any directive.
C8_RollBackOrNoUpdate ==
  /\ (C8Case /\ req.embeddedUpdateId.kind = "string") =>
       IF req.currentUpdateId = req.embeddedUpdateId
       THEN IsNoUpdateDirective(reply)
       ELSE IsRollBackDirective(reply)
  /\ (C8Case /\ req.embeddedUpdateId.kind # "string") => IsFailure(reply)

\* C8 amended: the same for a non-empty string expo-embedded-update-id,
\* except that a request asking for a signature while no key is configured
\* gets the 400 signing-configuration error; the response is never a
\* manifest; a missing, empty or non-string expo-embedded-update-id fails
\* the request without any directive.
C8_RollBackDecision ==
  /\ C8Case => ~IsManifest(reply)
  /\ (C8Case /\ req.embeddedUpdateId.kind = "string"
             /\ req.embeddedUpdateId.val # <<>>) =>
       IF SignatureRequested /\ ~privateKey
       THEN IsSigningError(reply)
       ELSE IF req.currentUpdateId = req.embeddedUpdateId
       THEN IsNoUpdateDirective(reply)
       ELSE IsRollBackDirective(reply) /\ reply.body.createdAt = updateBundlePath
  /\ (C8Case /\ ( req.embeddedUpdateId.kind # "string"
                  \/ req.embeddedUpdateId.val = <<>> )) =>
       IsFailure(reply) /\ reply.status # 400

C8_Witness ==
  /\ C8Case
  /\ req.embeddedUpdateId = Str(EmbeddedId)
  /\ req.currentUpdateId = req.embeddedUpdateId
  /\ IsNoUpdateDirective(reply)
  /\ reply.by = "putNoUpdateAvailable"

\* ------------------------------------------------------------------------
\* C9
\* ------------------------------------------------------------------------
\* Negotiation succeeded and the bundle lookup found no published bundle.
NoBundleFound == Responded /\ runtimeVersion # Absent /\ ~Located

\* C9: a request for a runtime version without a published bundle is
\* answered 404; client input errors are answered 400.
C9_MissingBundleIs404 ==
  /\ NoBundleFound => reply.status = 404
  /\ (Responded /\ reply.by = "handler") => reply.status = 400

\* ------------------------------------------------------------------------
\* C10
\* ------------------------------------------------------------------------
AssetResponded == apc = "done"

\* The bytes of a file that lies in the bundle directory the asset request
\* resolved.
FromResolvedBundle(bytes) ==
  \E f \in BundleFiles(updates[assetBundlePath]) :
    bytes = ReadFile(BundleDir(assetBundlePath) \o f)

\* C10: the bytes an asset request is answered with are the content of the
\* named file in the latest bundle directory of its runtime version, never
\* those of a file outside that directory.
C10_BytesFromBundle ==
  (AssetResponded /\ areply.status = 200) =>
    FromResolvedBundle(areply.bytes)

\* ------------------------------------------------------------------------
\* C11
\* ------------------------------------------------------------------------
\* The requested name is that of a file lying in the resolved bundle
\* directory, written with the directory in front as the manifest's asset
\* URLs write it, or relative to that directory.
NamesFileOfBundle ==
  \E f \in BundleFiles(updates[assetBundlePath]) :
    Normalize(<<>>, areq.asset.val) \in { BundleDir(assetBundlePath) \o f, f }

\* A validated asset request whose bundle was found and is an update with
\* readable metadata, asking for a file the bundle directory does not hold.
C11Case ==
  /\ AssetResponded
  /\ assetBundlePath # 0
  /\ MetadataReadable(updates[assetBundlePath])
  /\ ~NamesFileOfBundle

\* C11: an asset request for a file that is not in the bundle directory is
\* answered with 404 and the text Asset "<name>" does not exist., without any
\* file bytes, also when a file of that name lies elsewhere on disk or has no
\* record in the bundle metadata.
C11_MissingFileIs404 ==
  C11Case =>
    /\ areply.status = 404
    /\ areply.error = <<"Asset \"">> \o areq.asset.val \o <<"\" does not exist.">>
    /\ areply.bytes = <<>>

\* ------------------------------------------------------------------------
\* C12
\* ------------------------------------------------------------------------
\* C12: every 200 response of the manifest route carries expo-sfv-version 0,
\* cache-control "private, max-age=0" and a multipart/mixed content type; its
\* expo-protocol-version is the negotiated version for a manifest and 1 for
\* a rollback or no-update directive, and so is always 0 or 1.
C12_ResponseHeaders ==
  (Responded /\ reply.status = 200) =>
    /\ reply.headers.sfvVersion = 0
    /\ reply.headers.cacheControl = "private, max-age=0"
    /\ reply.headers.contentType = "multipart/mixed"
    /\ IsManifest(reply) => reply.headers.protocolVersion = protocolVersion
    /\ (IsRollBackDirective(reply) \/ IsNoUpdateDirective(reply)) =>
         reply.headers.protocolVersion = 1
    /\ reply.headers.protocolVersion \in {0, 1}

\* ------------------------------------------------------------------------
\* C14
\* ------------------------------------------------------------------------
\* One step of the handler of the request in flight.
HandlerStep ==
  \/ Negotiate
  \/ Locate
  \/ Classify
  \/ PutUpdateCheck
  \/ PutUpdateSend
  \/ PutRollBackCheck
  \/ PutRollBackSend
  \/ InnerCatch
  \/ PutNoUpdateAvailable
  \/ OuterCatch

InFlight == pc \notin {"idle", "done"}

\* How far along the handler a position is: every position lies after the
\* positions that can lead to it.
Progress(at) ==
  CASE at = "idle" -> 0
    [] at = "negotiate" -> 1
    [] at = "locate" -> 2
    [] at = "classify" -> 3
    [] at \in {"putUpdate", "putRollBack"} -> 4
    [] at \in {"putUpdateBuild", "putRollBackDirective"} -> 5
    [] at = "innerCatch" -> 6
    [] at = "putNoUpdateAvailable" -> 7
    [] at = "outerCatch" -> 8
    [] at = "done" -> 9

\* Before the handler is done nothing was sent and it can take a step; when
\* it is done reply.send was reached once.
OneSendSoFar ==
  /\ InFlight => (reply.sends = 0 /\ ENABLED HandlerStep)
  /\ Responded => reply.sends = 1
  /\ pc = "idle" => reply.sends = 0

\* A step of the handler moves on, never back to a position it has been at,
\* and sends at most once.
NoRetry ==
  (InFlight /\ pc' # pc) =>
    /\ Progress(pc') > Progress(pc)
    /\ reply'.sends \in {reply.sends, reply.sends + 1}
    /\ (reply'.sends = reply.sends + 1) <=> (pc' = "done")

\* C14: every manifest request the handler finishes sends exactly one
\* response: on every path reply.send is reached once and never twice, no
\* step is retried, and no path ends without a response.
C14_ExactlyOneSend ==
  []OneSendSoFar /\ [][NoRetry]_vars

\* The no-update signal was caught and the no-update handler itself refused
\* to sign: the one response is its 400.
C14_Witness ==
  /\ Responded
  /\ caught = 1
  /\ reply.by = "putNoUpdateAvailable"
  /\ reply.status = 400
  /\ reply.sends = 1

\* ------------------------------------------------------------------------
\* C15
\* ------------------------------------------------------------------------
\* Classification and documents belong to the bundle at the located path.
OfLocatedBundle ==
  /\ pc \in {"putUpdate", "putUpdateBuild"} => ~LocatedBundle.rollback
  /\ pc \in {"putRollBack", "putRollBackDirective"} => LocatedBundle.rollback
  /\ (Responded /\ IsManifest(reply)) =>
       /\ Located
       /\ ~LocatedBundle.rollback
       /\ reply.body.id = ConvertSHA256HashToUUID(LocatedBundle.id)
       /\ reply.body.createdAt = updateBundlePath
       /\ reply.body.launchAsset.bundle = updateBundlePath
       /\ reply.body.launchAsset.platform \in LocatedBundle.platforms
  /\ (Responded /\ IsRollBackDirective(reply)) =>
       /\ Located
       /\ LocatedBundle.rollback
       /\ reply.body.createdAt = updateBundlePath
  /\ (Responded /\ IsNoUpdateDirective(reply)) =>
       /\ Located
       /\ ~LocatedBundle.rollback =>
            req.currentUpdateId = Str(ConvertSHA256HashToUUID(LocatedBundle.id))

\* The path is set once per request, to the bundle that is latest at that
\* moment, and dropped when the handler returns; published bundles stay as
\* they are.
LocatedOnce ==
  /\ (updateBundlePath' # updateBundlePath) =>
       \/ /\ pc = "locate"
          /\ updateBundlePath = 0
          /\ updateBundlePath' = LatestBundlePath(updates, runtimeVersion.val)
       \/ pc = "done" /\ pc' = "idle" /\ updateBundlePath' = 0
  /\ Len(updates') >= Len(updates)
  /\ \A n \in 1..Len(updates) : updates'[n] = updates[n]

\* C15: within one manifest request the latest bundle path is located once,
\* and classification and every later read use that path; when the publisher
\* adds a newer bundle while the request is in flight, the response never
\* mixes the classification of one bundle with the documents of another, and
\* is the response for the bundle that was latest at the lookup.
C15_OneBundlePerRequest ==
  []OfLocatedBundle /\ [][LocatedOnce]_vars

\* A request in flight in the manifest builder holds bundle 1 while the
\* publisher has since added a rollback as bundle 2.
C15_Witness ==
  /\ pc = "putUpdateBuild"
  /\ updateBundlePath = 1
  /\ Len(updates) = 2
  /\ updates[2].rollback
  /\ LatestBundlePath(updates, runtimeVersion.val) = 2

\* ------------------------------------------------------------------------
\* C13
\* ------------------------------------------------------------------------
\* The second of two equal requests has its response.
RespondedAgain == Responded /\ prev # NoPrev /\ req = prev.req

\* The second response is the first one over again: status, headers, error
\* text and every field of the document.
SameAgain ==
  /\ RespondedAgain =>
       /\ reply.status = prev.reply.status
       /\ reply.error = prev.reply.error
       /\ reply.headers = prev.reply.headers
       /\ reply.body.part = prev.reply.body.part
       /\ reply.body.type = prev.reply.body.type
       /\ reply.body.id = prev.reply.body.id
       /\ reply.body.createdAt = prev.reply.body.createdAt
       /\ reply.body.runtimeVersion = prev.reply.body.runtimeVersion
       /\ reply.body.launchAsset = prev.reply.body.launchAsset
       /\ reply.body.extensions = prev.reply.body.extensions
       /\ reply.body.signature = prev.reply.body.signature
  /\ pc = "idle" => ManifestIdle

\* No step of the handler writes what a later request reads.
HandlerWritesNothing ==
  (InFlight \/ Responded) => UNCHANGED << updates, privateKey >>

====
